---- MODULE Spec2Model ----
(***************************************************************************)
(* A model of the indexing and retrieval engine of                         *)
(* src/crawler_web/Crawler_logic.py, as driven by                          *)
(* src/crawler_web/website/views.py: ingestion with periodic segment       *)
(* flushes, the additive merge of the segments, the boolean AND search and *)
(* the ranked retrieval of the top documents.                              *)
(*                                                                         *)
(* Python dicts are modelled as functions (their insertion order decides   *)
(* no result of the program), Python sets as sets whose enumeration order  *)
(* is chosen nondeterministically where the code iterates over them, and   *)
(* Python floats as IEEE-754 binary64 values with round-to-nearest-even.   *)
(***************************************************************************)
EXTENDS Integers, Sequences, FiniteSets, TLC

(***************************************************************************)
(* Bounds of the model.                                                    *)
(***************************************************************************)
\* Files the directory walk visits in one ingestion run.
MaxFiles == 4
\* Stands for the batch size of 10000 documents (Crawler_logic.py:235).
BatchSize == 2

(***************************************************************************)
(* Floats.  A non-negative binary64 value v with v = 0 or 2^-5 <= v < 2^6  *)
(* is the triple <<n2, n1, n0>> of limbs in base 2^21 with                 *)
(* v = (n2 * 2^42 + n1 * 2^21 + n0) * 2^-57.  Every weight and score of    *)
(* the model lies in that range, where a binary64 value is a multiple of   *)
(* 2^-57, so the representation is exact.                                  *)
(***************************************************************************)
Base == 2^21

FZero == <<0, 0, 0>>

FHalf == <<2^14, 0, 0>>

\* The number of bits of n.
RECURSIVE BitLen(_)
BitLen(n) == IF n = 0 THEN 0 ELSE 1 + BitLen(n \div 2)

\* Carry propagation: the same number with the two low limbs below Base.
Carry(n) ==
    LET t1 == n[2] + (n[3] \div Base)
    IN  <<n[1] + (t1 \div Base), t1 % Base, n[3] % Base>>

\* n rounded to 53 significant bits, to nearest, ties to even; sticky says
\* that the exact value lies strictly above n (a division's remainder).
Round53(n, sticky) ==
    LET d    == BitLen(n[1]) - 11
        p    == 2^d
        rem  == n[3] % p
        half == p \div 2
        kept == n[3] - rem
        odd  == (kept \div p) % 2 = 1
        up   == rem > half \/ (rem = half /\ (sticky \/ odd))
    IN  IF d <= 0 THEN n
        ELSE Carry(<<n[1], n[2], kept + (IF up THEN p ELSE 0)>>)

\* x + y of two floats.
FAdd(x, y) == Round53(Carry(<<x[1] + y[1], x[2] + y[2], x[3] + y[3]>>), FALSE)

\* 0.5 * k for an int k: exact.
FHalfOf(k) == <<k * 2^14, 0, 0>>

\* x / m for a float x and an int m in 1..1023: the quotient of 2x by m with
\* its remainder as the sticky bit, rounded, then halved (exactly).
FDiv(x, m) ==
    LET n  == Carry(<<2 * x[1], 2 * x[2], 2 * x[3]>>)
        t1 == (n[1] % m) * Base + n[2]
        t0 == (t1 % m) * Base + n[3]
        r  == Round53(<<n[1] \div m, t1 \div m, t0 \div m>>, t0 % m # 0)
    IN  <<r[1] \div 2,
          (r[1] % 2) * (Base \div 2) + (r[2] \div 2),
          (r[2] % 2) * (Base \div 2) + (r[3] \div 2)>>

\* x < y.
FLess(x, y) ==
    \/ x[1] < y[1]
    \/ x[1] = y[1] /\ x[2] < y[2]
    \/ x[1] = y[1] /\ x[2] = y[2] /\ x[3] < y[3]

(***************************************************************************)
(* Text.  A string is a sequence of characters; a token is kept as a TLA+  *)
(* string once it is stemmed.                                              *)
(***************************************************************************)
WordChars == {"a", "b", "s", "A", "B"}

\* str.lower() on one character.
Lower(c) == CASE c = "A" -> "a" [] c = "B" -> "b" [] OTHER -> c

\* re.findall(r'\b\w+\b', text): the maximal runs of word characters.
RECURSIVE findall(_, _, _)
findall(text, cur, acc) ==
    IF text = <<>> THEN (IF cur = <<>> THEN acc ELSE Append(acc, cur))
    ELSE IF Head(text) \in WordChars
         THEN findall(Tail(text), Append(cur, Head(text)), acc)
         ELSE findall(Tail(text), <<>>,
                      IF cur = <<>> THEN acc ELSE Append(acc, cur))

\* PorterStemmer.stem on a lower-case word over the letters a, b, s: words of
\* at most two letters are returned as they are, and of the suffix rules
\* only step 1a applies ("ss" -> "ss", "s" -> "").
stem(w) ==
    IF Len(w) <= 2 THEN w
    ELSE IF w[Len(w)] = "s" /\ w[Len(w) - 1] # "s" THEN SubSeq(w, 1, Len(w) - 1)
    ELSE w

\* The characters of a word joined into one string.
RECURSIVE Join(_)
Join(w) == IF w = <<>> THEN "" ELSE Head(w) \o Join(Tail(w))

tokenize_and_normalize(text) ==
    LET tokens == findall([i \in DOMAIN text |-> Lower(text[i])], <<>>, <<>>)
    IN  [i \in DOMAIN tokens |-> Join(stem(tokens[i]))]

(***************************************************************************)
(* Dicts.                                                                  *)
(***************************************************************************)
EmptyDict == <<>>

Range(f) == {f[x] : x \in DOMAIN f}

\* d[k] = v
Put(d, k, v) == [x \in DOMAIN d \cup {k} |-> IF x = k THEN v ELSE d[x]]

\* d.get(k, default)
Get(d, k, default) == IF k \in DOMAIN d THEN d[k] ELSE default

RECURSIVE SumOfSquares(_, _)
SumOfSquares(freq, terms) ==
    IF terms = {} THEN 0
    ELSE LET t == CHOOSE x \in terms : TRUE
         IN  freq[t] * freq[t] + SumOfSquares(freq, terms \ {t})

(***************************************************************************)
(* The files of the corpus directory.  A file has a path (its DocID), may  *)
(* or may not end in ".json", may or may not be readable as JSON, and      *)
(* holds a "content" and a "url".  The content is an HTML string: it is    *)
(* represented by whether it is empty and by the (text, key_text) pair     *)
(* that BeautifulSoup extracts from it.                                    *)
(***************************************************************************)
NoContent == [empty |-> TRUE, parses |-> TRUE, text |-> <<>>, key_text |-> <<>>]

Html(text, key_text) ==
    [empty |-> FALSE, parses |-> TRUE, text |-> text, key_text |-> key_text]

\* Content on which BeautifulSoup raises; text and key_text are what the
\* page holds.
Unparsable ==
    [empty |-> FALSE, parses |-> FALSE, text |-> <<"a", " ", "b">>, key_text |-> <<"b">>]

\* Markup without any word in its text.
MarkupOnly == Html(<<" ">>, <<"a">>)

\* tokens a, b, a
ContentA == Html(<<"a", " ", "B", " ", "a">>, <<>>)

\* tokens b, ab; key token b
ContentB == Html(<<"b", "'", "a", "b", "s">>, <<"B">>)

\* tokens a, a, a, b; key tokens a, a
ContentC == Html(<<"a", " ", "a", " ", "a", " ", "b">>, <<"a", " ", "a">>)

\* The path of the i-th file of the walk: the DocID.
DocId(i) == "DEV/" \o ToString(i) \o ".json"

UrlOf(i) == "http://" \o ToString(i)

JsonFile(i, content) ==
    [path |-> DocId(i), json |-> TRUE, readable |-> TRUE,
     content |-> content, url |-> UrlOf(i)]

\* What the i-th file of the walk may be.
FilePool(i) ==
    { [path |-> "DEV/" \o ToString(i) \o ".txt", json |-> FALSE, readable |-> TRUE,
       content |-> NoContent, url |-> ""],
      [path |-> DocId(i), json |-> TRUE, readable |-> FALSE,
       content |-> ContentA, url |-> UrlOf(i)],
      JsonFile(i, Unparsable),
      JsonFile(i, MarkupOnly), JsonFile(i, ContentA), JsonFile(i, ContentB) }

\* A file that cannot be read as JSON: content "" and url "".
read_json_file(file) ==
    IF file.readable THEN <<file.content, file.url>> ELSE <<NoContent, "">>

\* An except branch that returns the text of the page.
extract_text_from_html_partial(content) == <<content.text, content.key_text>>

\* The text and the key text of the page, or "", "" if the parser raises.
extract_text_from_html(content) ==
    IF content.parses THEN <<content.text, content.key_text>> ELSE <<<<>>, <<>>>>

(***************************************************************************)
(* build_inverted_index: updates the index and the document lengths; the   *)
(* pair of both is returned.  A document length is math.sqrt of an int: it *)
(* is kept as that int (sqrt is strictly increasing on them).              *)
(***************************************************************************)
term_frequency(tokens) ==
    [t \in Range(tokens) |-> Cardinality({i \in DOMAIN tokens : tokens[i] = t})]

\* min(term_frequency.values()) in the place of max.
max_tf_min(freq) == CHOOSE m \in Range(freq) : \A t \in DOMAIN freq : m <= freq[t]

max_tf(freq) == CHOOSE m \in Range(freq) : \A t \in DOMAIN freq : freq[t] <= m

\* tf = 0.5 + (0.5 * freq / max_tf)
tf_weight(f, m) == FAdd(FHalf, FDiv(FHalfOf(f), m))

\* tf *= 2
FTwice(x) == FAdd(x, x)

\* A boost for every occurrence among the key tokens.
RECURSIVE boosted(_, _)
boosted(tf, n) == IF n = 0 THEN tf ELSE boosted(FTwice(tf), n - 1)

term_weight_proportional(token, freq, key_tokens) ==
    boosted(tf_weight(freq[token], max_tf(freq)),
            Cardinality({i \in DOMAIN key_tokens : key_tokens[i] = token}))

\* The weight of one term of a document, boosted if it is a key token.
term_weight(token, freq, key_tokens) ==
    LET tf == tf_weight(freq[token], max_tf(freq))
    IN  IF token \in Range(key_tokens) THEN FTwice(tf) ELSE tf

\* inverted_index[token][doc_id] = tf
add_posting_overwrite(postings, doc_id, tf) == Put(postings, doc_id, tf)

\* inverted_index[token][doc_id] += tf, on defaultdict(float) postings
add_posting(postings, doc_id, tf) ==
    Put(postings, doc_id, FAdd(Get(postings, doc_id, FZero), tf))

\* A builder without the early return: a document without tokens gets a
\* length of 0.
build_inverted_index_no_return(doc_id, tokens, key_tokens, index, lengths) ==
    LET freq == term_frequency(tokens)
    IN  [index |->
            [t \in DOMAIN index \cup DOMAIN freq |->
                IF t \in DOMAIN freq
                THEN add_posting(Get(index, t, EmptyDict), doc_id,
                                 term_weight(t, freq, key_tokens))
                ELSE index[t]],
         lengths |->
            Put(lengths, doc_id, [sqrt |-> SumOfSquares(freq, DOMAIN freq)])]

build_inverted_index(doc_id, tokens, key_tokens, index, lengths) ==
    LET freq == term_frequency(tokens)
    IN  IF DOMAIN freq = {} THEN [index |-> index, lengths |-> lengths]
        ELSE [index |->
                [t \in DOMAIN index \cup DOMAIN freq |->
                    IF t \in DOMAIN freq
                    THEN add_posting(Get(index, t, EmptyDict), doc_id,
                                     term_weight(t, freq, key_tokens))
                    ELSE index[t]],
              lengths |->
                Put(lengths, doc_id, [sqrt |-> SumOfSquares(freq, DOMAIN freq)])]

(***************************************************************************)
(* Segment files.  A JSON text of an index is the set of its members       *)
(* <<token, {<<doc_id, weight>>, ...}>>.                                   *)
(***************************************************************************)
json_dump(index) ==
    {<<t, {<<d, index[t][d]>> : d \in DOMAIN index[t]}>> : t \in DOMAIN index}

json_load(text) ==
    [t \in {m[1] : m \in text} |->
        LET members == (CHOOSE m \in text : m[1] = t)[2]
        IN  [d \in {e[1] : e \in members} |->
                (CHOOSE e \in members : e[1] = d)[2]]]

PartialName(n) == "partial_index_" \o ToString(n) \o ".json"

FinalName == "final_inverted_index.json"

\* save_partial_index: the disk after the write; the file name is PartialName.
save_partial_index(files, index, n) == Put(files, PartialName(n), json_dump(index))

(***************************************************************************)
(* State.                                                                  *)
(***************************************************************************)
VARIABLES
    pc,              \* where views.py stands: "ingest", "merge", "serve" (no
                     \* request is being handled), "respond" (home returns)
                     \* or "failed" (the import has raised)
    walked,          \* the files os.walk has yielded so far
    inverted_index,  \* process_all_documents: the in-memory index
    doc_count,       \* process_all_documents: documents processed
    part_num,        \* process_all_documents: number of the next segment
    partial_files,   \* process_all_documents: names of the segments written
    disk,            \* the files written: name -> JSON text
    doc_id_to_url,   \* module global
    doc_lengths,     \* module global
    final_index,     \* views.py: the merged index
    query,           \* home: the stripped query of the last request
    doc_results,     \* home: what Bool_Search returned
    top_docs,        \* print_top_5_urls: the DocIDs behind top_urls
    top_urls         \* home: the URLs rendered

vars == <<pc, walked, inverted_index, doc_count, part_num, partial_files, disk,
          doc_id_to_url, doc_lengths, final_index, query, doc_results,
          top_docs, top_urls>>

ingest_vars == <<inverted_index, doc_count, part_num, partial_files, disk,
                 doc_id_to_url, doc_lengths>>

request_vars == <<query, doc_results, top_docs, top_urls>>

(***************************************************************************)
(* process_all_documents.  The loop variables are handled as one record.   *)
(***************************************************************************)
LoopState ==
    [inverted_index |-> inverted_index, doc_count |-> doc_count,
     part_num |-> part_num, partial_files |-> partial_files, disk |-> disk,
     doc_id_to_url |-> doc_id_to_url, doc_lengths |-> doc_lengths]

StartState ==
    [inverted_index |-> EmptyDict, doc_count |-> 0, part_num |-> 1,
     partial_files |-> <<>>, disk |-> EmptyDict,
     doc_id_to_url |-> EmptyDict, doc_lengths |-> EmptyDict]

\* if doc_count % 10000 == 0, for a threshold of batch documents
flush_due_at(count, batch) == count % batch = 0

\* if doc_count % 10000 == 0
flush_due(count) == flush_due_at(count, BatchSize)

\* A flush that forgets inverted_index.clear().
flush_batch_keep(s) ==
    [s EXCEPT !.disk = save_partial_index(@, s.inverted_index, s.part_num),
              !.partial_files = Append(@, PartialName(s.part_num)),
              !.part_num = @ + 1]

\* A flush that forgets part_num += 1.
flush_batch_same_number(s) ==
    [s EXCEPT !.disk = save_partial_index(@, s.inverted_index, s.part_num),
              !.partial_files = Append(@, PartialName(s.part_num)),
              !.inverted_index = EmptyDict]

\* A flush that clears the document lengths with the index.
flush_batch_clear_lengths(s) ==
    [s EXCEPT !.disk = save_partial_index(@, s.inverted_index, s.part_num),
              !.partial_files = Append(@, PartialName(s.part_num)),
              !.part_num = @ + 1,
              !.inverted_index = EmptyDict,
              !.doc_lengths = EmptyDict]

\* A flush that forgets partial_files.append(partial_filename).
flush_batch_unlisted(s) ==
    [s EXCEPT !.disk = save_partial_index(@, s.inverted_index, s.part_num),
              !.part_num = @ + 1,
              !.inverted_index = EmptyDict]

\* The flush inside the loop: save, append, part_num += 1, clear.
flush_batch(s) ==
    [s EXCEPT !.disk = save_partial_index(@, s.inverted_index, s.part_num),
              !.partial_files = Append(@, PartialName(s.part_num)),
              !.part_num = @ + 1,
              !.inverted_index = EmptyDict]

\* One iteration of the loop over the files, for a threshold of batch
\* documents.
process_file_at(s, file, batch) ==
    IF ~file.json THEN s
    ELSE LET read    == read_json_file(file)
             content == read[1]
             url     == read[2]
         IN  IF content.empty THEN s
             ELSE LET extracted  == extract_text_from_html(content)
                      tokens     == tokenize_and_normalize(extracted[1])
                      key_tokens == tokenize_and_normalize(extracted[2])
                      built      == build_inverted_index(file.path, tokens, key_tokens,
                                        s.inverted_index, s.doc_lengths)
                      s1 == [s EXCEPT !.inverted_index = built.index,
                                      !.doc_lengths = built.lengths,
                                      !.doc_id_to_url = Put(@, file.path, url),
                                      !.doc_count = @ + 1]
                  IN  IF flush_due_at(s1.doc_count, batch) THEN flush_batch(s1) ELSE s1

\* One iteration of the loop over the files.
process_file(s, file) == process_file_at(s, file, BatchSize)

\* A last flush that does not look at the index.
final_flush_always(index) == TRUE

\* if inverted_index: (after the loop)
final_flush_due(index) == index # EmptyDict

\* A run that ends without the flush after the loop.
finish_without_flush(s) == s

\* The code after the loop: the last segment; part_num is left as it is.
finish(s) ==
    IF final_flush_due(s.inverted_index)
    THEN [s EXCEPT !.disk = save_partial_index(@, s.inverted_index, s.part_num),
                   !.partial_files = Append(@, PartialName(s.part_num))]
    ELSE s

SetLoopState(s) ==
    /\ inverted_index' = s.inverted_index
    /\ doc_count' = s.doc_count
    /\ part_num' = s.part_num
    /\ partial_files' = s.partial_files
    /\ disk' = s.disk
    /\ doc_id_to_url' = s.doc_id_to_url
    /\ doc_lengths' = s.doc_lengths

(***************************************************************************)
(* merge_partial_indexes.                                                  *)
(***************************************************************************)
\* A merge that assigns instead of adding: final_index[token][doc_id] = tf.
merge_partial_assign(final, partial) ==
    LET touched == {t \in DOMAIN partial : DOMAIN partial[t] # {}}
    IN  [t \in DOMAIN final \cup touched |->
            IF t \in touched
            THEN LET old == Get(final, t, EmptyDict)
                 IN  [d \in DOMAIN old \cup DOMAIN partial[t] |->
                        IF d \in DOMAIN partial[t] THEN partial[t][d] ELSE old[d]]
            ELSE final[t]]

\* A merge that keeps the first weight of a pair: setdefault instead of +=.
merge_partial_first(final, partial) ==
    LET touched == {t \in DOMAIN partial : DOMAIN partial[t] # {}}
    IN  [t \in DOMAIN final \cup touched |->
            IF t \in touched
            THEN LET old == Get(final, t, EmptyDict)
                 IN  [d \in DOMAIN old \cup DOMAIN partial[t] |->
                        IF d \in DOMAIN old THEN old[d] ELSE partial[t][d]]
            ELSE final[t]]

\* final_index[token][doc_id] += tf for every posting of one partial index
merge_partial(final, partial) ==
    LET touched == {t \in DOMAIN partial : DOMAIN partial[t] # {}}
    IN  [t \in DOMAIN final \cup touched |->
            IF t \in touched
            THEN LET old == Get(final, t, EmptyDict)
                 IN  [d \in DOMAIN old \cup DOMAIN partial[t] |->
                        IF d \in DOMAIN partial[t]
                        THEN FAdd(Get(old, d, FZero), partial[t][d])
                        ELSE old[d]]
            ELSE final[t]]

RECURSIVE merge_loop(_, _, _)
merge_loop(final, files, names) ==
    IF names = <<>> THEN final
    ELSE merge_loop(merge_partial(final, json_load(files[Head(names)])),
                    files, Tail(names))

merge_partial_indexes(names, files) == merge_loop(EmptyDict, files, names)

\* The text of a file that is not JSON: it ends after the opening brace.
CorruptText == {<<"{", {}>>}

\* open(partial, "r") or json.load(f) raises.
read_raises(files, name) == name \notin DOMAIN files \/ files[name] = CorruptText

\* A merge with try/except around the read: it goes on with the next file.
merge_result_skip(names, files) ==
    [raised |-> FALSE,
     index  |-> merge_partial_indexes(
                    SelectSeq(names, LAMBDA n : ~read_raises(files, n)), files)]

\* merge_partial_indexes with its exceptions: nothing in it catches what the
\* read of a file raises, and the final index is written after the loop.
merge_result(names, files) ==
    IF \E i \in DOMAIN names : read_raises(files, names[i])
    THEN [raised |-> TRUE, index |-> EmptyDict]
    ELSE [raised |-> FALSE, index |-> merge_partial_indexes(names, files)]

(***************************************************************************)
(* Bool_Search and print_top_5_urls.                                       *)
(***************************************************************************)
\* top_docs = ranked_docs[:5]
TopK == 5

UrlNotFound == "URL Not Found"

RECURSIVE Intersection(_)
Intersection(sets) ==
    IF Len(sets) = 1 THEN sets[1] ELSE sets[1] \cap Intersection(Tail(sets))

\* The tokens of the query that are in the index, in the order of the query.
indexed_tokens(tokens, index) == SelectSeq(tokens, LAMBDA t : t \in DOMAIN index)

\* A search in which a token that is not in the index matches no document.
Bool_Search_strict(queries, index) ==
    LET tokens == tokenize_and_normalize(queries)
    IN  IF tokens = <<>> THEN {}
        ELSE {d \in UNION {DOMAIN index[t] : t \in DOMAIN index} :
                \A i \in DOMAIN tokens :
                    tokens[i] \in DOMAIN index /\ d \in DOMAIN index[tokens[i]]}

\* A search that returns every document when no token of the query is indexed.
Bool_Search_all(queries, index) ==
    LET tokens   == tokenize_and_normalize(queries)
        present  == indexed_tokens(tokens, index)
        doc_sets == [i \in DOMAIN present |-> DOMAIN index[present[i]]]
    IN  IF doc_sets = <<>> THEN UNION {DOMAIN index[t] : t \in DOMAIN index}
        ELSE Intersection(doc_sets)

\* A search that unites the posting lists.
Bool_Search_any(queries, index) ==
    LET tokens   == tokenize_and_normalize(queries)
        present  == indexed_tokens(tokens, index)
    IN  UNION {DOMAIN index[present[i]] : i \in DOMAIN present}

Bool_Search(queries, index) ==
    LET tokens   == tokenize_and_normalize(queries)
        present  == indexed_tokens(tokens, index)
        doc_sets == [i \in DOMAIN present |-> DOMAIN index[present[i]]]
    IN  IF tokens = <<>> THEN {}
        ELSE IF doc_sets = <<>> THEN {}
        ELSE Intersection(doc_sets)

\* sum(inverted_index[token].get(doc, 0) for token in query_tokens
\*     if token in inverted_index), added from left to right
RECURSIVE score_sum(_, _, _, _)
score_sum(acc, tokens, index, doc) ==
    IF tokens = <<>> THEN acc
    ELSE score_sum(FAdd(acc, Get(index[Head(tokens)], doc, FZero)),
                   Tail(tokens), index, doc)

score(doc, query_tokens, index) ==
    score_sum(FZero, indexed_tokens(query_tokens, index), index, doc)

\* An ascending sort: reverse=True forgotten.
insert_asc(out, x, key) ==
    LET before == {i \in 1..Len(out) : FLess(key[x], key[out[i]])}
        at     == IF before = {} THEN Len(out) + 1
                  ELSE CHOOSE i \in before : \A j \in before : i <= j
    IN  SubSeq(out, 1, at - 1) \o <<x>> \o SubSeq(out, at, Len(out))

\* x goes behind every element whose key is not smaller than its own
insert_desc(out, x, key) ==
    LET before == {i \in 1..Len(out) : FLess(key[out[i]], key[x])}
        at     == IF before = {} THEN Len(out) + 1
                  ELSE CHOOSE i \in before : \A j \in before : i <= j
    IN  SubSeq(out, 1, at - 1) \o <<x>> \o SubSeq(out, at, Len(out))

\* sorted(docs, key=..., reverse=True): stable, by descending key
RECURSIVE sorted_desc(_, _, _)
sorted_desc(out, docs, key) ==
    IF docs = <<>> THEN out
    ELSE sorted_desc(insert_desc(out, Head(docs), key), Tail(docs), key)

\* ranked_docs[:6]
truncate_one_more(ranked) ==
    SubSeq(ranked, 1, IF Len(ranked) < TopK + 1 THEN Len(ranked) ELSE TopK + 1)

\* ranked_docs[:5]
truncate(ranked) == SubSeq(ranked, 1, IF Len(ranked) < TopK THEN Len(ranked) ELSE TopK)

\* key=lambda doc: sum(...), tabulated over the result set
ranking_key(result_docs, index, text) ==
    LET query_tokens == tokenize_and_normalize(text)
    IN  [d \in result_docs |-> score(d, query_tokens, index)]

\* A response that leaves out the documents without a URL.
print_top_5_urls_known_only(docs, key, urls) ==
    LET ranked == sorted_desc(<<>>, docs, key)
        top    == truncate(ranked)
        known  == SelectSeq(top, LAMBDA d : d \in DOMAIN urls)
    IN  [docs |-> top, urls |-> [i \in DOMAIN known |-> urls[known[i]]]]

\* docs is the result set in the order in which the set is enumerated, key
\* the sort key of its documents.
print_top_5_urls(docs, key, urls) ==
    LET ranked == sorted_desc(<<>>, docs, key)
        top    == truncate(ranked)
    IN  [docs |-> top, urls |-> [i \in DOMAIN top |-> Get(urls, top[i], UrlNotFound)]]

\* inverted_index[token] on a defaultdict: a key that is missing is inserted
\* with an empty posting list.
getitem_default(index, token) ==
    IF token \in DOMAIN index THEN index ELSE Put(index, token, EmptyDict)

RECURSIVE index_after_lookups(_, _)
index_after_lookups(index, tokens) ==
    IF tokens = <<>> THEN index
    ELSE index_after_lookups(getitem_default(index, Head(tokens)), Tail(tokens))

\* The lookups of the sort key without "if token in inverted_index".
index_after_ranking_unguarded(index, text) ==
    index_after_lookups(index, tokenize_and_normalize(text))

\* The index after print_top_5_urls: the sort key evaluates
\* inverted_index[token] for the tokens of the query that are in the index.
\* (Bool_Search uses "in" and .get only, which insert nothing.)
index_after_ranking(index, text) ==
    index_after_lookups(index, indexed_tokens(tokenize_and_normalize(text), index))

\* The orders in which a set may be enumerated.
RECURSIVE Enumerations(_)
Enumerations(S) ==
    IF S = {} THEN {<<>>}
    ELSE UNION {{<<x>> \o e : e \in Enumerations(S \ {x})} : x \in S}

(***************************************************************************)
(* views.py.                                                               *)
(***************************************************************************)
Whitespace == {" "}

\* str.strip()
RECURSIVE strip(_)
strip(text) ==
    IF text = <<>> THEN text
    ELSE IF Head(text) \in Whitespace THEN strip(Tail(text))
    ELSE IF text[Len(text)] \in Whitespace THEN strip(SubSeq(text, 1, Len(text) - 1))
    ELSE text

\* The requests with a form from pool, and the request without a form.
Requests(pool) ==
    {[method |-> "GET", form |-> <<>>]}
    \cup {[method |-> "POST", form |-> text] : text \in pool}

\* The forms of the requests to the served corpus.
PipelineQueries == { <<" ", "b">>, <<"s", " ", "a">>, <<"a", "b", "s", "'", "B">> }

Init ==
    /\ pc = "ingest"
    /\ walked = <<>>
    /\ inverted_index = EmptyDict
    /\ doc_count = 0
    /\ part_num = 1
    /\ partial_files = <<>>
    /\ disk = EmptyDict
    /\ doc_id_to_url = EmptyDict
    /\ doc_lengths = EmptyDict
    /\ final_index = EmptyDict
    /\ query = <<>>
    /\ doc_results = {}
    /\ top_docs = <<>>
    /\ top_urls = <<>>

\* os.walk yields one more file: one iteration of the loop.
ProcessFile ==
    /\ pc = "ingest"
    /\ Len(walked) < MaxFiles
    /\ \E file \in FilePool(Len(walked) + 1) :
          /\ walked' = Append(walked, file)
          /\ SetLoopState(process_file(LoopState, file))
    /\ UNCHANGED <<pc, final_index, request_vars>>

\* The walk is over: the last segment, and process_all_documents returns.
EndOfWalk ==
    /\ pc = "ingest"
    /\ SetLoopState(finish(LoopState))
    /\ pc' = "merge"
    /\ UNCHANGED <<walked, final_index, request_vars>>

\* final_index = merge_partial_indexes(partial_files); if the call raises,
\* the import of views.py fails and no request is ever handled.
Merge ==
    /\ pc = "merge"
    /\ LET result == merge_result(partial_files, disk)
       IN  IF result.raised
           THEN /\ pc' = "failed"
                /\ UNCHANGED <<final_index, disk>>
           ELSE /\ final_index' = result.index
                /\ disk' = Put(disk, FinalName, json_dump(result.index))
                /\ pc' = "serve"
    /\ UNCHANGED <<walked, inverted_index, doc_count, part_num, partial_files,
                   doc_id_to_url, doc_lengths, request_vars>>

\* A handler that answers while the merge has not run yet.
Home_early(pool) ==
    /\ pc \in {"merge", "serve"}
    /\ \E request \in Requests(pool) :
          LET q       == IF request.method = "POST" THEN strip(request.form) ELSE <<>>
              results == IF q # <<>> THEN Bool_Search(q, final_index) ELSE {}
              key     == ranking_key(results, final_index, q)
          IN  /\ query' = q
              /\ doc_results' = results
              /\ \E docs \in Enumerations(results) :
                    LET top == IF results # {}
                               THEN print_top_5_urls(docs, key, doc_id_to_url)
                               ELSE [docs |-> <<>>, urls |-> <<>>]
                    IN  /\ top_docs' = top.docs
                        /\ top_urls' = top.urls
              /\ final_index' = IF results # {}
                                THEN index_after_ranking(final_index, q)
                                ELSE final_index
    /\ pc' = "respond"
    /\ UNCHANGED <<walked, ingest_vars>>

\* home(): one request, up to the rendering of the response.
Home(pool) ==
    /\ pc = "serve"
    /\ \E request \in Requests(pool) :
          LET q       == IF request.method = "POST" THEN strip(request.form) ELSE <<>>
              results == IF q # <<>> THEN Bool_Search(q, final_index) ELSE {}
              key     == ranking_key(results, final_index, q)
          IN  /\ query' = q
              /\ doc_results' = results
              /\ \E docs \in Enumerations(results) :
                    LET top == IF results # {}
                               THEN print_top_5_urls(docs, key, doc_id_to_url)
                               ELSE [docs |-> <<>>, urls |-> <<>>]
                    IN  /\ top_docs' = top.docs
                        /\ top_urls' = top.urls
              /\ final_index' = IF results # {}
                                THEN index_after_ranking(final_index, q)
                                ELSE final_index
    /\ pc' = "respond"
    /\ UNCHANGED <<walked, ingest_vars>>

\* home() returns: its locals are gone, the next request starts afresh.
Return ==
    /\ pc = "respond"
    /\ pc' = "serve"
    /\ query' = <<>>
    /\ doc_results' = {}
    /\ top_docs' = <<>>
    /\ top_urls' = <<>>
    /\ UNCHANGED <<walked, ingest_vars, final_index>>

Next == ProcessFile \/ EndOfWalk \/ Merge \/ Home(PipelineQueries) \/ Return

Spec == Init /\ [][Next]_vars

(***************************************************************************)
(* The merge alone: any list of segment files of a directory.              *)
(***************************************************************************)
\* Segments a merge may have to read.
MaxSegments == 3

\* The posting lists {doc |-> w : doc \in docs}.
Postings(docs, w) == [d \in docs |-> w]

\* The files of the directory: weights 0.5 + 0.5 * 1/3 and 0.5 + 0.5 * 1/4,
\* plain and boosted, and one file that is not JSON.
SegmentDisk ==
    LET w3 == tf_weight(1, 3)
        w4 == tf_weight(1, 4)
        segments ==
          << EmptyDict,
             [t \in {"a"} |-> Postings({DocId(1)}, w3)],
             [t \in {"a"} |-> Postings({DocId(1)}, w4)],
             [t \in {"a", "b"} |->
                 IF t = "a" THEN Put(Postings({DocId(1)}, w3), DocId(2), FTwice(w3))
                 ELSE Postings({DocId(2)}, w3)],
             [t \in {"b"} |-> Postings({DocId(1), DocId(2)}, FTwice(w4))] >>
    IN  [name \in {PartialName(i) : i \in 1..(Len(segments) + 1)} |->
            IF name = PartialName(Len(segments) + 1) THEN CorruptText
            ELSE json_dump(segments[CHOOSE i \in DOMAIN segments : PartialName(i) = name])]

\* A segment file that is not in the directory.
MissingName == "partial_index_0.json"

\* The lists of at most n different elements of S.
RECURSIVE SeqsUpTo(_, _)
SeqsUpTo(S, n) ==
    IF n = 0 THEN {<<>>}
    ELSE LET shorter == SeqsUpTo(S, n - 1)
         IN  shorter \cup UNION {{Append(q, x) : x \in S \ Range(q)} : q \in shorter}

InitMerge ==
    /\ pc = "merge"
    /\ walked = <<>>
    /\ inverted_index = EmptyDict
    /\ doc_count = 0
    /\ part_num = 1
    /\ disk = SegmentDisk
    /\ partial_files \in SeqsUpTo(DOMAIN SegmentDisk \cup {MissingName}, MaxSegments)
    /\ doc_id_to_url = EmptyDict
    /\ doc_lengths = EmptyDict
    /\ final_index = EmptyDict
    /\ query = <<>>
    /\ doc_results = {}
    /\ top_docs = <<>>
    /\ top_urls = <<>>

NextMerge == Merge

SpecMerge == InitMerge /\ [][NextMerge]_vars

(***************************************************************************)
(* The search alone: requests to the index of a larger corpus.             *)
(***************************************************************************)
\* Documents of the largest corpus the requests are served from: one more
\* than a response holds, so that the truncation drops a document.
MaxSearchDocs == TopK + 1

\* Documents of the corpora of every pattern.
MaxSmallDocs == 3

\* process_all_documents on a whole directory: loop, then the last segment.
RECURSIVE walk_loop(_, _)
walk_loop(s, files) ==
    IF files = <<>> THEN s ELSE walk_loop(process_file(s, Head(files)), Tail(files))

process_all_documents(files) == finish(walk_loop(StartState, files))

\* process_all_documents with a threshold of batch documents.
RECURSIVE walk_loop_at(_, _, _)
walk_loop_at(s, files, batch) ==
    IF files = <<>> THEN s
    ELSE walk_loop_at(process_file_at(s, Head(files), batch), Tail(files), batch)

process_all_documents_at(files, batch) == finish(walk_loop_at(StartState, files, batch))

\* The corpora: n documents whose contents repeat a pattern.
Corpus(n, pattern) ==
    [i \in 1..n |-> JsonFile(i, pattern[((i - 1) % Len(pattern)) + 1])]

SmallPatterns ==
    { <<ContentA, ContentB>>, <<ContentB, ContentA, MarkupOnly, ContentC>> }

LargePatterns == { <<ContentA>>, <<ContentC, ContentC, ContentA>> }

CorpusPool ==
    {Corpus(n, p) : n \in 0..MaxSmallDocs, p \in SmallPatterns \cup LargePatterns}
    \cup {Corpus(n, p) : n \in 0..MaxSearchDocs, p \in LargePatterns}

\* The forms of the requests.
QueryPool ==
    { <<" ">>, <<"'">>, <<"a">>, <<"B", " ">>, <<"a", " ", "b">>, <<"s">>,
      <<"s", " ", "a">>, <<"a", "b", "s">>, <<"b", "'", "a", " ", "a">> }

\* The URL tables the requests may find: the table of the run that built
\* the index, or a table in which the first document of the index is not
\* recorded (the index holds a segment of another run).
UrlTables(files, table) ==
    {table}
    \cup (IF Len(files) <= MaxSmallDocs
          THEN {[d \in DOMAIN table \ {DocId(1)} |-> table[d]]}
          ELSE {})

InitSearch ==
    \E files \in CorpusPool :
        LET s == process_all_documents(files)
        IN  /\ pc = "serve"
            /\ walked = files
            /\ inverted_index = s.inverted_index
            /\ doc_count = s.doc_count
            /\ part_num = s.part_num
            /\ partial_files = s.partial_files
            /\ final_index = merge_partial_indexes(s.partial_files, s.disk)
            /\ disk = Put(s.disk, FinalName, json_dump(final_index))
            /\ doc_id_to_url \in UrlTables(files, s.doc_id_to_url)
            /\ doc_lengths = s.doc_lengths
            /\ query = <<>>
            /\ doc_results = {}
            /\ top_docs = <<>>
            /\ top_urls = <<>>

NextSearch == Home(QueryPool) \/ Return

SpecSearch == InitSearch /\ [][NextSearch]_vars

(***************************************************************************)
(* The builder alone: build_inverted_index called for any document, also   *)
(* for one whose DocID is in the index already.                            *)
(***************************************************************************)
\* Calls of build_inverted_index.
MaxBuilds == 3

\* tokens ab, b, b; key tokens s, a, b, b
ContentD == Html(<<"a", "b", " ", "b", " ", "B">>, <<"s", " ", "a", " ", "b", " ", "B">>)

\* The documents the builder is called for.
BuildPool ==
    {JsonFile(i, c) : i \in {1, 2},
                      c \in {MarkupOnly, ContentA, ContentB, ContentC, ContentD}}

InitBuild ==
    /\ pc = "build"
    /\ walked = <<>>
    /\ inverted_index = EmptyDict
    /\ doc_count = 0
    /\ part_num = 1
    /\ partial_files = <<>>
    /\ disk = EmptyDict
    /\ doc_id_to_url = EmptyDict
    /\ doc_lengths = EmptyDict
    /\ final_index = EmptyDict
    /\ query = <<>>
    /\ doc_results = {}
    /\ top_docs = <<>>
    /\ top_urls = <<>>

\* text, key_text = extract_text_from_html(content); the two calls of
\* tokenize_and_normalize; build_inverted_index(file_path, tokens, key_tokens,
\* inverted_index).  walked holds the documents of the calls.
Build ==
    /\ pc = "build"
    /\ Len(walked) < MaxBuilds
    /\ \E file \in BuildPool :
          LET extracted  == extract_text_from_html(file.content)
              tokens     == tokenize_and_normalize(extracted[1])
              key_tokens == tokenize_and_normalize(extracted[2])
              built      == build_inverted_index(file.path, tokens, key_tokens,
                                                 inverted_index, doc_lengths)
          IN  /\ walked' = Append(walked, file)
              /\ inverted_index' = built.index
              /\ doc_lengths' = built.lengths
    /\ UNCHANGED <<pc, doc_count, part_num, partial_files, disk, doc_id_to_url,
                   final_index, request_vars>>

NextBuild == Build

SpecBuild == InitBuild /\ [][NextBuild]_vars

(***************************************************************************)
(* Properties of build_inverted_index.                                     *)
(***************************************************************************)
BodyTokens(file) == tokenize_and_normalize(extract_text_from_html(file.content)[1])

KeyTokens(file) == tokenize_and_normalize(extract_text_from_html(file.content)[2])

\* Occurrences of the term among the tokens.
Count(tokens, t) == Cardinality({i \in DOMAIN tokens : tokens[i] = t})

MaxCount(tokens) ==
    CHOOSE n \in {Count(tokens, t) : t \in Range(tokens)} :
        \A t \in Range(tokens) : Count(tokens, t) <= n

\* 0.5 + 0.5 * freq / maxFreq
Unboosted(tokens, t) ==
    FAdd(FHalf, FDiv(FHalfOf(Count(tokens, t)), MaxCount(tokens)))

FOne == FAdd(FHalf, FHalf)

\* The float of a natural number.
FNat(n) == FHalfOf(2 * n)

RECURSIVE SumUnboosted(_, _)
SumUnboosted(tokens, terms) ==
    IF terms = {} THEN FZero
    ELSE LET t == CHOOSE x \in terms : TRUE
         IN  FAdd(SumUnboosted(tokens, terms \ {t}), Unboosted(tokens, t))

RECURSIVE SumOfSquaredCounts(_, _)
SumOfSquaredCounts(tokens, terms) ==
    IF terms = {} THEN 0
    ELSE LET t == CHOOSE x \in terms : TRUE
         IN  SumOfSquaredCounts(tokens, terms \ {t}) + Count(tokens, t) * Count(tokens, t)

\* The document of the call that the step makes.
Built == walked'[Len(walked')]

\* The step is a call for a document with tokens.
BuildStep == pc = "build" /\ walked' # walked /\ BodyTokens(Built) # <<>>

\* The step is such a call, and the index has no posting of the document.
FirstBuildStep ==
    /\ BuildStep
    /\ \A t \in DOMAIN inverted_index : Built.path \notin DOMAIN inverted_index[t]

\* The weight, before the boost, of every term of a document that is built
\* for the first time: the posting or its half.
C18_WeightStep ==
    FirstBuildStep =>
        LET tokens == BodyTokens(Built)
            terms  == Range(tokens)
        IN  /\ \A t \in terms :
                  LET w   == inverted_index'[t][Built.path]
                      pre == Unboosted(tokens, t)
                  IN  /\ w = pre \/ w = FAdd(pre, pre)
                      /\ ~FLess(pre, FHalf)
                      /\ ~FLess(FOne, pre)
                      /\ Count(tokens, t) = MaxCount(tokens) <=> pre = FOne
            /\ ~FLess(FNat(Cardinality(terms)), SumUnboosted(tokens, terms))
            /\ ~FLess(FNat(Len(tokens)), SumUnboosted(tokens, terms))

\* C18: the weight of a term before the boost is 0.5 + 0.5 * freq / maxFreq,
\* at least 0.5 and at most 1.0, and 1.0 for the terms of the highest
\* frequency; the weights of a document add up to its number of terms at
\* most.
C18_UnboostedWeightRange == [][C18_WeightStep]_vars

\* A posting with a weight between 0.5 and 1.0.
C18_Witness ==
    /\ pc = "build"
    /\ \E t \in DOMAIN inverted_index : \E d \in DOMAIN inverted_index[t] :
          /\ FLess(FHalf, inverted_index[t][d])
          /\ FLess(inverted_index[t][d], FOne)

\* The postings of a document that is built for the first time: one for
\* each term of the body, twice the unboosted weight for a key token.
C19_BoostStep ==
    FirstBuildStep =>
        LET tokens == BodyTokens(Built)
            keys   == Range(KeyTokens(Built))
        IN  /\ {t \in DOMAIN inverted_index' :
                   Built.path \in DOMAIN inverted_index'[t]} = Range(tokens)
            /\ \A t \in Range(tokens) :
                  inverted_index'[t][Built.path] =
                      (IF t \in keys
                       THEN FAdd(Unboosted(tokens, t), Unboosted(tokens, t))
                       ELSE Unboosted(tokens, t))

\* C19: a term of the body gets twice its unboosted weight if it is among
\* the key tokens, however often, and the unboosted weight if it is not; a
\* key token that is not in the body gets no posting.
C19_BoostIsBinary == [][C19_BoostStep]_vars

\* A document with a body term that is a key token twice, weight 2.0, and a
\* key token that is not in the body.
C19_Witness ==
    /\ pc = "build"
    /\ Len(walked) = 1
    /\ \E t \in Range(BodyTokens(walked[1])) :
          /\ Count(KeyTokens(walked[1]), t) = 2
          /\ inverted_index[t][walked[1].path] = FAdd(FOne, FOne)
    /\ Range(KeyTokens(walked[1])) \ Range(BodyTokens(walked[1])) # {}

\* The weight the call adds for a term of its document.
AddedWeight(file, t) ==
    IF t \in Range(KeyTokens(file))
    THEN FAdd(Unboosted(BodyTokens(file), t), Unboosted(BodyTokens(file), t))
    ELSE Unboosted(BodyTokens(file), t)

\* A call for a document with tokens: its weights are added to the entries
\* of the document, every other entry stays, and the length of the document
\* is the one of this call.
C20_AddStep ==
    BuildStep =>
        LET d     == Built.path
            terms == Range(BodyTokens(Built))
        IN  /\ DOMAIN inverted_index' = DOMAIN inverted_index \cup terms
            /\ \A t \in DOMAIN inverted_index' :
                  LET old == IF t \in DOMAIN inverted_index
                             THEN inverted_index[t] ELSE EmptyDict
                  IN  /\ DOMAIN inverted_index'[t] =
                            DOMAIN old \cup (IF t \in terms THEN {d} ELSE {})
                      /\ \A x \in DOMAIN inverted_index'[t] :
                            inverted_index'[t][x] =
                                (IF x = d /\ t \in terms
                                 THEN FAdd(IF d \in DOMAIN old THEN old[d] ELSE FZero,
                                           AddedWeight(Built, t))
                                 ELSE old[x])
            /\ DOMAIN doc_lengths' = DOMAIN doc_lengths \cup {d}
            /\ \A x \in DOMAIN doc_lengths' :
                  doc_lengths'[x] =
                      (IF x = d
                       THEN [sqrt |-> SumOfSquaredCounts(BodyTokens(Built), terms)]
                       ELSE doc_lengths[x])

\* C20: the builder adds the new weight to the entry of (term, DocID) and
\* leaves the entries of other documents and terms as they are; the length
\* of the document is overwritten.
C20_BuilderAdds == [][C20_AddStep]_vars

\* Two calls for one DocID with a common term and different lengths.
C20_Witness ==
    /\ pc = "build"
    /\ Len(walked) = 2
    /\ walked[1].path = walked[2].path
    /\ Range(BodyTokens(walked[1])) \cap Range(BodyTokens(walked[2])) # {}
    /\ SumOfSquaredCounts(BodyTokens(walked[1]), Range(BodyTokens(walked[1])))
          # SumOfSquaredCounts(BodyTokens(walked[2]), Range(BodyTokens(walked[2])))
    /\ doc_lengths[walked[2].path] =
          [sqrt |-> SumOfSquaredCounts(BodyTokens(walked[2]), Range(BodyTokens(walked[2])))]

(***************************************************************************)
(* Properties of merge_partial_indexes.                                    *)
(***************************************************************************)
\* The (term, document) pairs of the JSON text of one file.
PairsOfFile(name) ==
    {<<m[1], e[1]>> : m \in disk[name], e \in UNION {x[2] : x \in disk[name]}}
    \cap UNION {{<<m[1], e[1]>> : e \in m[2]} : m \in disk[name]}

\* The weight the file gives to the pair, 0 if the pair is not in it.
WeightInFile(name, t, d) ==
    IF <<t, d>> \in PairsOfFile(name)
    THEN LET m == CHOOSE x \in disk[name] : x[1] = t
         IN  (CHOOSE e \in m[2] : e[1] = d)[2]
    ELSE FZero

\* The weights of the pair in the first n merged files, added in their order.
RECURSIVE SumOverSegments(_, _, _)
SumOverSegments(n, t, d) ==
    IF n = 0 THEN FZero
    ELSE FAdd(SumOverSegments(n - 1, t, d), WeightInFile(partial_files[n], t, d))

\* The positions of the list whose file holds the pair.
SegmentsWith(t, d) ==
    {i \in DOMAIN partial_files : <<t, d>> \in PairsOfFile(partial_files[i])}

MergedPairs == UNION {PairsOfFile(partial_files[i]) : i \in DOMAIN partial_files}

PairsOf(index) == UNION {{<<t, d>> : d \in DOMAIN index[t]} : t \in DOMAIN index}

\* C1: the merged index holds exactly the pairs of the merged segments, and
\* the weight of each pair is the sum of its weights over all the segments,
\* a segment without the pair adding 0.
C1_MergeSumsWeights ==
    pc = "serve" =>
        /\ PairsOf(final_index) = MergedPairs
        /\ \A t \in DOMAIN final_index : DOMAIN final_index[t] # {}
        /\ \A p \in MergedPairs :
              final_index[p[1]][p[2]] = SumOverSegments(Len(partial_files), p[1], p[2])

\* A merge in which a pair of two segments got a weight that is neither of
\* the two.
C1_Witness ==
    /\ pc = "serve"
    /\ \E p \in MergedPairs :
          /\ Cardinality(SegmentsWith(p[1], p[2])) >= 2
          /\ \A i \in SegmentsWith(p[1], p[2]) :
                FLess(WeightInFile(partial_files[i], p[1], p[2]),
                      final_index[p[1]][p[2]])

\* The orders in which the merged list may be given.
Orders(list) ==
    {[i \in DOMAIN list |-> list[e[i]]] : e \in Enumerations(DOMAIN list)}

UnreadableSegment ==
    \E i \in DOMAIN partial_files :
        \/ partial_files[i] \notin DOMAIN disk
        \/ \E m \in disk[partial_files[i]] : m[1] = "{"

\* C15: a merge of a list with a segment that cannot be read ends in the
\* exception: no final index is returned and none is written.
C15_MergeFailsClosed ==
    (pc # "merge" /\ UnreadableSegment) =>
        /\ pc = "failed"
        /\ final_index = EmptyDict
        /\ FinalName \notin DOMAIN disk

\* A failed merge of a list whose first segment has postings and can be
\* read.
C15_Witness ==
    /\ pc = "failed"
    /\ Len(partial_files) >= 2
    /\ partial_files[1] \in DOMAIN disk
    /\ \E m \in disk[partial_files[1]] : m[1] # "{" /\ m[2] # {}

(***************************************************************************)
(* Properties of process_all_documents.                                    *)
(***************************************************************************)
\* The documents with a posting in the JSON text.
DocsOfText(text) == UNION {{e[1] : e \in m[2]} : m \in text}

\* The documents the walk has processed: files that were read and had content.
Processed ==
    SelectSeq(walked, LAMBDA f : f.json /\ f.readable /\ ~f.content.empty)

\* The documents processed since the last flush inside the loop.
SinceLastFlush ==
    SubSeq(Processed, Len(Processed) - (Len(Processed) % BatchSize) + 1,
           Len(Processed))

\* The document has a word in the text that is extracted from it.
HasToken(file) ==
    file.content.parses /\ tokenize_and_normalize(file.content.text) # <<>>

\* One step of the walk: a segment is written exactly when the counter has
\* moved to a multiple of BatchSize; the segment holds the whole index,
\* which is empty afterwards.
C9_FlushStep ==
    (pc = "ingest" /\ pc' = "ingest") =>
        LET flushed == partial_files' # partial_files
            counted == doc_count' = doc_count + 1
            name    == PartialName(part_num)
        IN  /\ flushed <=> (counted /\ doc_count' > 0 /\ doc_count' % BatchSize = 0)
            /\ ~counted => doc_count' = doc_count
            /\ flushed =>
                  /\ partial_files' = Append(partial_files, name)
                  /\ part_num' = part_num + 1
                  /\ inverted_index' = EmptyDict
                  /\ DOMAIN disk' = DOMAIN disk \cup {name}
                  /\ \A f \in DOMAIN disk \ {name} : disk'[f] = disk[f]
                  /\ \A t \in DOMAIN inverted_index :
                        \A d \in DOMAIN inverted_index[t] :
                            \E m \in disk'[name] :
                                /\ m[1] = t
                                /\ \E e \in m[2] :
                                      /\ e[1] = d
                                      /\ e[2] = inverted_index[t][d]
                  /\ DocsOfText(json_dump(inverted_index)) \subseteq DocsOfText(disk'[name])
                  /\ DocsOfText(disk'[name]) \subseteq
                        DocsOfText(json_dump(inverted_index)) \cup {walked'[Len(walked')].path}
            /\ ~flushed => /\ disk' = disk
                           /\ part_num' = part_num

\* C9: a segment is written inside the loop exactly when the counter of
\* processed documents reaches a positive multiple of BatchSize, with the
\* whole in-memory index, which is empty before the next document; no
\* segment holds postings of more than BatchSize documents.
C9_FlushEveryBatch ==
    /\ [][C9_FlushStep]_vars
    /\ [](\A i \in DOMAIN partial_files :
             /\ partial_files[i] \in DOMAIN disk
             /\ Cardinality(DocsOfText(disk[partial_files[i]])) <= BatchSize)
    /\ []((pc = "ingest" /\ doc_count % BatchSize = 0) => inverted_index = EmptyDict)

\* The walk has flushed twice, the second segment holding BatchSize
\* documents, and no document has been processed since.
C9_Witness ==
    /\ pc = "ingest"
    /\ doc_count = 2 * BatchSize
    /\ Len(partial_files) = 2
    /\ Cardinality(DocsOfText(disk[partial_files[2]])) = BatchSize
    /\ inverted_index = EmptyDict

\* C10 as stated: after the walk there is one more segment exactly if the
\* in-memory index is not empty, and the index is not empty exactly when the
\* counter is not a multiple of BatchSize.
C10_FinalFlushIffPartialBatch ==
    pc = "merge" =>
        /\ Len(partial_files) = (doc_count \div BatchSize)
                                + (IF inverted_index # EmptyDict THEN 1 ELSE 0)
        /\ inverted_index # EmptyDict <=> doc_count % BatchSize # 0

\* C10: after the walk there is one more segment, holding the in-memory
\* index, exactly if that index is not empty; the index is not empty exactly
\* when a document processed since the last flush of the loop had a token,
\* and then the counter is not a multiple of BatchSize.
C10_FinalFlushIffIndexNonEmpty ==
    pc = "merge" =>
        /\ Len(partial_files) = (doc_count \div BatchSize)
                                + (IF inverted_index # EmptyDict THEN 1 ELSE 0)
        /\ \A i \in DOMAIN partial_files : partial_files[i] = PartialName(i)
        /\ inverted_index # EmptyDict =>
              /\ disk[partial_files[Len(partial_files)]] = json_dump(inverted_index)
              /\ doc_count % BatchSize # 0
        /\ doc_count = Len(Processed)
        /\ inverted_index # EmptyDict <=>
              \E i \in DOMAIN SinceLastFlush : HasToken(SinceLastFlush[i])

\* The walk ended after a flush of the loop and a document with tokens: the
\* last segment has been written.
C10_Witness ==
    /\ pc = "merge"
    /\ inverted_index # EmptyDict
    /\ Len(partial_files) = 2
    /\ doc_count = BatchSize + 1

\* The segment files on the disk.
SegmentFiles == DOMAIN disk \ {FinalName}

\* One step of the run: the list of segments grows at its end by a file
\* that was not there, and no file that is there changes.
C11_SegmentStep ==
    /\ \/ partial_files' = partial_files
       \/ /\ partial_files' = Append(partial_files, PartialName(Len(partial_files) + 1))
          /\ PartialName(Len(partial_files) + 1) \notin DOMAIN disk
    /\ \A f \in SegmentFiles : f \in DOMAIN disk' /\ disk'[f] = disk[f]

\* C11: the segments of one run are numbered 1, 2, 3, ... in the order of
\* their creation, no segment file is written twice, and the list of
\* process_all_documents names each written segment once, in that order.
C11_SegmentsNumberedOnce ==
    /\ [][C11_SegmentStep]_vars
    /\ [](/\ \A i \in DOMAIN partial_files : partial_files[i] = PartialName(i)
          /\ \A i, j \in DOMAIN partial_files :
                i # j => partial_files[i] # partial_files[j]
          /\ SegmentFiles = Range(partial_files))

\* The run has written two segments inside the loop, with different
\* contents.
C11_Witness ==
    /\ pc = "merge"
    /\ partial_files = <<PartialName(1), PartialName(2)>>
    /\ doc_count = 2 * BatchSize
    /\ disk[PartialName(1)] # disk[PartialName(2)]

\* Files of the runs that are compared with the runs over the same files in
\* every other order.
MaxPermutedFiles == 3

\* The final index of the run over the files in the given order.
MergedIndexOf(files) ==
    LET s == process_all_documents(files)
    IN  merge_partial_indexes(s.partial_files, s.disk)

\* C12: the run over the same files in any other order ends, after the
\* merge, with the same final index.
C12_IngestionOrderIrrelevant ==
    (pc = "serve" /\ Len(walked) <= MaxPermutedFiles) =>
        \A p \in Orders(walked) : MergedIndexOf(p) = final_index

\* A run of more than one segment that, in another order of its files,
\* writes another first segment.
C12_Witness ==
    /\ pc = "serve"
    /\ Len(walked) <= MaxPermutedFiles
    /\ Len(partial_files) >= 2
    /\ \E p \in Orders(walked) :
          process_all_documents(p).disk[PartialName(1)] # disk[PartialName(1)]

\* A JSON file that cannot be read, or whose content cannot be parsed.
Failing(file) == file.json /\ (~file.readable \/ ~file.content.parses)

\* One step of the walk over a failing file: no posting is added, and
\* the walk goes on.
C16_FailureStep ==
    (pc = "ingest" /\ walked' # walked /\ Failing(walked'[Len(walked')])) =>
        /\ pc' = "ingest"
        /\ doc_lengths' = doc_lengths
        /\ inverted_index' = (IF partial_files' = partial_files
                              THEN inverted_index ELSE EmptyDict)
        /\ \A f \in DOMAIN disk' :
              walked'[Len(walked')].path \notin DocsOfText(disk'[f])

\* C16: a file that cannot be read or parsed adds no posting and does not
\* end the run, and the run ends with the final index of the run over the
\* other files alone.
C16_FailuresSkipped ==
    /\ [][C16_FailureStep]_vars
    /\ [](pc = "serve" =>
            /\ final_index = MergedIndexOf(SelectSeq(walked, LAMBDA f : ~Failing(f)))
            /\ \A i \in DOMAIN walked :
                  Failing(walked[i]) =>
                      \A p \in PairsOf(final_index) : p[2] # walked[i].path)

\* A run over a file that cannot be read and a file that cannot be parsed,
\* with a document indexed after them.
C16_Witness ==
    /\ pc = "serve"
    /\ \E i, j, k \in DOMAIN walked :
          /\ i < k /\ j < k
          /\ walked[i].json /\ ~walked[i].readable
          /\ walked[j].json /\ walked[j].readable /\ ~walked[j].content.parses
          /\ \E p \in PairsOf(final_index) : p[2] = walked[k].path

\* The step processes a document that has content and no token in its text.
ZeroTokenStep ==
    /\ pc = "ingest"
    /\ walked' # walked
    /\ LET file == walked'[Len(walked')]
       IN  /\ file.json /\ file.readable /\ ~file.content.empty
           /\ BodyTokens(file) = <<>>

\* One step of the walk over a document without tokens: the lengths are as
\* before, the index is as before when it is flushed or kept, and the
\* counter moves; the flush is due by the counter alone.
C21_ZeroTokenStep ==
    ZeroTokenStep =>
        LET file == walked'[Len(walked')]
            name == PartialName(part_num)
        IN  /\ doc_lengths' = doc_lengths
            /\ file.path \notin DOMAIN doc_lengths'
            /\ doc_count' = doc_count + 1
            /\ doc_id_to_url' = Put(doc_id_to_url, file.path, file.url)
            /\ IF (doc_count + 1) % BatchSize = 0
               THEN /\ partial_files' = Append(partial_files, name)
                    /\ disk' = Put(disk, name, json_dump(inverted_index))
                    /\ inverted_index' = EmptyDict
               ELSE /\ partial_files' = partial_files
                    /\ disk' = disk
                    /\ inverted_index' = inverted_index

\* C21: a document without body tokens leaves the in-memory index and the
\* document lengths as they were, also when it has key tokens, and it is
\* counted as processed: it counts for the flush inside the loop.
C21_ZeroTokensNoOp == [][C21_ZeroTokenStep]_vars

\* A document without body tokens, with a key token, was the one that made
\* the flush due: the segment holds the document before it alone.
C21_Witness ==
    /\ pc = "ingest"
    /\ Len(walked) = BatchSize
    /\ doc_count = BatchSize
    /\ walked[BatchSize].json /\ walked[BatchSize].readable
    /\ walked[BatchSize].content.parses
    /\ BodyTokens(walked[BatchSize]) = <<>>
    /\ KeyTokens(walked[BatchSize]) # <<>>
    /\ Len(partial_files) = 1
    /\ disk[partial_files[1]] # {}
    /\ walked[BatchSize].path \notin DocsOfText(disk[partial_files[1]])
    /\ walked[BatchSize].path \notin DOMAIN doc_lengths
    /\ walked[BatchSize].path \in DOMAIN doc_id_to_url

\* The length the builder computes for the document.
LengthOf(file) ==
    [sqrt |-> SumOfSquaredCounts(BodyTokens(file), Range(BodyTokens(file)))]

\* The processed documents with a token.
Lengthed == SelectSeq(Processed, HasToken)

\* One step of the run: the entries of both tables stay; a step that is not
\* a step of the walk over a file leaves both tables as they are.
C22_TableStep ==
    /\ \A d \in DOMAIN doc_lengths :
          d \in DOMAIN doc_lengths' /\ doc_lengths'[d] = doc_lengths[d]
    /\ \A d \in DOMAIN doc_id_to_url :
          d \in DOMAIN doc_id_to_url' /\ doc_id_to_url'[d] = doc_id_to_url[d]
    /\ walked' = walked => UNCHANGED <<doc_lengths, doc_id_to_url>>

\* C22: a flush and the merge leave the document lengths as they are: at
\* any time, every document processed so far with a token has the length of
\* its ingestion, and no other document has one; the table of URLs gains
\* entries during the walk only.
C22_LengthsPersist ==
    /\ [][C22_TableStep]_vars
    /\ [](/\ DOMAIN doc_lengths = {Lengthed[i].path : i \in DOMAIN Lengthed}
          /\ \A i \in DOMAIN Lengthed :
                doc_lengths[Lengthed[i].path] = LengthOf(Lengthed[i])
          /\ DOMAIN doc_id_to_url = {Processed[i].path : i \in DOMAIN Processed}
          /\ \A i \in DOMAIN Processed :
                doc_id_to_url[Processed[i].path] = Processed[i].url)

\* After the merge of a run with a flush inside the loop and a last
\* segment: documents of both segments have their lengths.
C22_Witness ==
    /\ pc = "serve"
    /\ Len(partial_files) = 2
    /\ Len(Lengthed) > BatchSize
    /\ HasToken(Processed[1])
    /\ doc_lengths[Processed[1].path] = LengthOf(Processed[1])
    /\ doc_lengths[Lengthed[Len(Lengthed)].path] = LengthOf(Lengthed[Len(Lengthed)])
    /\ Processed[1].path \in DocsOfText(disk[partial_files[1]])

(***************************************************************************)
(* Properties of Bool_Search and print_top_5_urls.                         *)
(***************************************************************************)
QueryTokens == tokenize_and_normalize(query)

\* The terms of the query that are terms of the index.
IndexedTerms == {t \in Range(QueryTokens) : t \in DOMAIN final_index}

IndexedDocs == UNION {DOMAIN final_index[t] : t \in DOMAIN final_index}

\* The score of a document: the weights of the query's tokens for it, a
\* token without a posting of the document adding 0.
RECURSIVE ScoreUpTo(_, _)
ScoreUpTo(n, d) ==
    IF n = 0 THEN FZero
    ELSE LET t == QueryTokens[n]
             w == IF t \in DOMAIN final_index /\ d \in DOMAIN final_index[t]
                  THEN final_index[t][d] ELSE FZero
         IN  IF t \in DOMAIN final_index THEN FAdd(ScoreUpTo(n - 1, d), w)
             ELSE ScoreUpTo(n - 1, d)

Score(d) == ScoreUpTo(Len(QueryTokens), d)

ExtraTerms == {<<"a">>, <<"b">>, <<"s">>}

\* C4 as stated: the result of a searched query with a term, extended by one
\* more term, is a subset of the result of the query.
C4_MoreTermsFewerResults ==
    (pc = "respond" /\ QueryTokens # <<>>) =>
        \A t \in ExtraTerms :
            Bool_Search(query \o <<" ">> \o t, final_index) \subseteq doc_results

\* C5: a query without tokens, or with tokens none of which is in the
\* index, has the empty result set and the empty list of URLs.
C5_NothingForUnknownQuery ==
    pc = "respond" =>
        (IndexedTerms = {} => (doc_results = {} /\ top_urls = <<>> /\ top_docs = <<>>))

\* A query whose only token is not a term of the non-empty index.
C5_Witness ==
    /\ pc = "respond"
    /\ QueryTokens # <<>>
    /\ IndexedTerms = {}
    /\ final_index # EmptyDict
    /\ top_urls = <<>>

\* C6: the response holds at most TopK entries, one URL per document, the
\* documents distinct and from the result set, and all of them if the
\* result set has no more than TopK.
C6_AtMostTopK ==
    pc = "respond" =>
        /\ Len(top_docs) <= TopK
        /\ Len(top_urls) = Len(top_docs)
        /\ \A i \in DOMAIN top_docs :
              /\ top_docs[i] \in doc_results
              /\ top_urls[i] = (IF top_docs[i] \in DOMAIN doc_id_to_url
                                THEN doc_id_to_url[top_docs[i]] ELSE UrlNotFound)
              /\ \A j \in DOMAIN top_docs : i # j => top_docs[i] # top_docs[j]
        /\ Cardinality(doc_results) <= TopK => Range(top_docs) = doc_results
        /\ Cardinality(doc_results) > TopK => Len(top_docs) = TopK

\* A result set of more than TopK documents.
C6_Witness ==
    /\ pc = "respond"
    /\ Cardinality(doc_results) > TopK
    /\ Len(top_docs) = TopK

\* C7: the documents of the response are in the order of their scores, the
\* highest first, and no document of the result set that is left out has a
\* higher score than one that is in.
C7_DescendingScore ==
    pc = "respond" =>
        /\ \A i, j \in DOMAIN top_docs :
              i < j => ~FLess(Score(top_docs[i]), Score(top_docs[j]))
        /\ \A d \in doc_results \ Range(top_docs) :
              \A i \in DOMAIN top_docs : ~FLess(Score(top_docs[i]), Score(d))

\* A response whose first document has a higher score than its last, with a
\* document left out.
C7_Witness ==
    /\ pc = "respond"
    /\ doc_results \ Range(top_docs) # {}
    /\ FLess(Score(top_docs[Len(top_docs)]), Score(top_docs[1]))

\* C8 as stated: the order of the response is the same for every order in
\* which the result set is enumerated.
C8_OrderIndependentOfEnumeration ==
    pc = "respond" =>
        \A e \in Enumerations(doc_results) :
            doc_results # {} =>
                print_top_5_urls(e, ranking_key(doc_results, final_index, query),
                                 doc_id_to_url).docs = top_docs
\* C17: the response has one entry for each of the top documents, in their
\* order: the URL of the table, or "URL Not Found" for a document that the
\* table does not hold.
C17_SentinelForMissingUrl ==
    pc = "respond" =>
        /\ DOMAIN top_urls = DOMAIN top_docs
        /\ \A i \in DOMAIN top_docs :
              IF top_docs[i] \in DOMAIN doc_id_to_url
              THEN top_urls[i] = walked[CHOOSE k \in DOMAIN walked :
                                           walked[k].path = top_docs[i]].url
              ELSE top_urls[i] = "URL Not Found"

\* A response with the sentinel for one document, followed by the URL of
\* another.
C17_Witness ==
    /\ pc = "respond"
    /\ \E i, j \in DOMAIN top_docs :
          /\ i < j
          /\ top_docs[i] \notin DOMAIN doc_id_to_url
          /\ top_urls[i] = "URL Not Found"
          /\ top_docs[j] \in DOMAIN doc_id_to_url

(***************************************************************************)
(* Properties of views.py.                                                 *)
(***************************************************************************)
\* The final index is the merge of all the segments of the run, and the
\* run has written its last segment.
MergeComplete ==
    /\ PairsOf(final_index) = MergedPairs
    /\ \A p \in MergedPairs :
          final_index[p[1]][p[2]] = SumOverSegments(Len(partial_files), p[1], p[2])
    /\ FinalName \in DOMAIN disk
    /\ inverted_index # EmptyDict =>
          /\ partial_files # <<>>
          /\ disk[partial_files[Len(partial_files)]] = json_dump(inverted_index)

\* C13: a request is handled only after ingestion and merge are over, and
\* the handler reads the final index of all the segments.
C13_NoQueryBeforeMerge ==
    /\ [][pc' = "respond" => (pc = "serve" /\ MergeComplete)]_vars
    /\ [](pc = "respond" =>
            /\ MergeComplete
            /\ doc_results \subseteq IndexedDocs
            /\ \A d \in doc_results : \A t \in IndexedTerms :
                  <<t, d>> \in MergedPairs)

\* A request whose results come from two segments.
C13_Witness ==
    /\ pc = "respond"
    /\ Len(partial_files) = 2
    /\ \E d1, d2 \in doc_results :
          /\ d1 \in DocsOfText(disk[partial_files[1]])
          /\ d2 \in DocsOfText(disk[partial_files[2]])

\* The index and the tables a request may read.
Served == <<final_index, doc_id_to_url, doc_lengths, disk>>

\* C14: a request changes neither the final index nor the URL table, and
\* its result is the result of the query on the index as it was merged,
\* whatever requests were handled before.
C14_QueriesReadOnly ==
    /\ [][(pc \in {"serve", "respond"}) => (Served' = Served)]_vars
    /\ [](pc = "respond" =>
            /\ PairsOf(final_index) = MergedPairs
            /\ DOMAIN final_index = {p[1] : p \in MergedPairs}
            /\ doc_results = {d \in IndexedDocs :
                                 /\ IndexedTerms # {}
                                 /\ \A t \in IndexedTerms : <<t, d>> \in MergedPairs})

\* A ranked response to a query with a term that is not in the index.
C14_Witness ==
    /\ pc = "respond"
    /\ Range(QueryTokens) \ DOMAIN final_index # {}
    /\ top_docs # <<>>
    /\ PairsOf(final_index) = MergedPairs

\* The sum of the weights of the document under the first n query tokens
\* that are in the index, without a default.
RECURSIVE PresentScoreUpTo(_, _)
PresentScoreUpTo(n, d) ==
    IF n = 0 THEN FZero
    ELSE IF QueryTokens[n] \in DOMAIN final_index
         THEN FAdd(PresentScoreUpTo(n - 1, d), final_index[QueryTokens[n]][d])
         ELSE PresentScoreUpTo(n - 1, d)

\* C23: every document of the result has a posting, of a positive weight,
\* under every query term that is in the index: its score is the sum of
\* these weights, no term adding the default 0, and it is greater than 0.
C23_ResultsHaveEveryIndexedTerm ==
    pc = "respond" =>
        \A d \in doc_results :
            /\ \A t \in IndexedTerms :
                  /\ d \in DOMAIN final_index[t]
                  /\ FLess(FZero, final_index[t][d])
            /\ IndexedTerms # {}
            /\ score(d, QueryTokens, final_index) = PresentScoreUpTo(Len(QueryTokens), d)
            /\ FLess(FZero, score(d, QueryTokens, final_index))

\* A query of two terms of the index whose posting lists differ, with a
\* result.
C23_Witness ==
    /\ pc = "respond"
    /\ doc_results # {}
    /\ \E t, u \in IndexedTerms :
          /\ DOMAIN final_index[t] \ DOMAIN final_index[u] # {}
          /\ doc_results \subseteq DOMAIN final_index[t] \cap DOMAIN final_index[u]

(***************************************************************************)
(* The run as a whole: segments and merge against one index in memory.     *)
(***************************************************************************)
\* The largest threshold of the flush the runs are compared for.
MaxBatchSize == 3

\* The index of the builder after the documents, without any flush.
RECURSIVE BuiltWithoutFlush(_, _)
BuiltWithoutFlush(files, index) ==
    IF files = <<>> THEN index
    ELSE BuiltWithoutFlush(Tail(files),
             build_inverted_index(Head(files).path, BodyTokens(Head(files)),
                 KeyTokens(Head(files)), index, EmptyDict).index)

NoFlushIndex == BuiltWithoutFlush(Processed, EmptyDict)

\* The pairs (term, DocID) of a JSON text.
PairsOfText(text) == UNION {{<<m[1], e[1]>> : e \in m[2]} : m \in text}

\* Every weight of the index is at least 0.5 and at most 2.0.
WeightsInRange(index) ==
    \A t \in DOMAIN index : \A d \in DOMAIN index[t] :
        /\ ~FLess(index[t][d], FHalf)
        /\ ~FLess(FAdd(FOne, FOne), index[t][d])

\* The run over the files with a threshold of batch documents writes every
\* pair to one segment, and its merge is the index without any flush.
TransparentAt(batch) ==
    LET s      == process_all_documents_at(walked, batch)
        merged == merge_partial_indexes(s.partial_files, s.disk)
    IN  /\ merged = NoFlushIndex
        /\ \A p \in PairsOf(NoFlushIndex) :
              Cardinality({i \in DOMAIN s.partial_files :
                              p \in PairsOfText(s.disk[s.partial_files[i]])}) = 1

\* C24: with one DocID per document, every posting is written to exactly
\* one segment and the merged index is the index the builder holds without
\* any flush, for the threshold of the run and for every threshold from 1
\* on; every weight of the final index is in [0.5, 2.0].
C24_FlushingTransparent ==
    /\ pc = "merge" => \A batch \in 1..MaxBatchSize : TransparentAt(batch)
    /\ pc = "serve" =>
          /\ final_index = NoFlushIndex
          /\ \A p \in PairsOf(final_index) : Cardinality(SegmentsWith(p[1], p[2])) = 1
          /\ WeightsInRange(final_index)

\* The final index of a run of two segments: a term with documents of both
\* segments, and a weight of 2.0.
C24_Witness ==
    /\ pc = "serve"
    /\ Len(partial_files) = 2
    /\ final_index = NoFlushIndex
    /\ \E t \in DOMAIN final_index : \E d, e \in DOMAIN final_index[t] :
          /\ SegmentsWith(t, d) = {1}
          /\ SegmentsWith(t, e) = {2}
    /\ \E t \in DOMAIN final_index : \E d \in DOMAIN final_index[t] :
          final_index[t][d] = FAdd(FOne, FOne)

====
